---- MODULE Spec2Model ----
(***************************************************************************)
(* Model of log_windows.go: the Windows console backend of go-logging.     *)
(* LogBackend.Log colours a record by bracketing the write with two calls  *)
(* of SetConsoleTextAttribute on the console the output file refers to.    *)
(***************************************************************************)
EXTENDS Integers, Sequences, FiniteSets, TLC

(***************************************************************************)
(* Bounds of the model.                                                    *)
(***************************************************************************)
\* goroutines that may call Log on the one backend
NumProcs == 2
\* records rec are drawn from 1..MaxRec
MaxRec == 2
\* calldepth arguments are drawn from 0..MaxCallDepth
MaxCallDepth == 1

Procs == 1..NumProcs
Records == 1..MaxRec
CallDepths == 0..MaxCallDepth

(***************************************************************************)
(* type word uint16 and the character attributes.                          *)
(***************************************************************************)
WordBits == 16

fgBlack == 0
fgBlue == 1
fgGreen == 2
fgCyan == 3
fgRed == 4
fgMagenta == 5
fgYellow == 6
fgWhite == 7
fgIntensity == 8
fgMask == 15

RECURSIVE BitOr(_, _)
\* a | b, bit by bit from the lowest
BitOr(a, b) ==
    IF a = 0 THEN b
    ELSE IF b = 0 THEN a
    ELSE (IF a % 2 = 1 \/ b % 2 = 1 THEN 1 ELSE 0)
         + 2 * BitOr(a \div 2, b \div 2)

\* the | operator of type word
Or(a, b) == BitOr(a % (2 ^ WordBits), b % (2 ^ WordBits))

(***************************************************************************)
(* The levels of the framework, used as slice indices.                     *)
(***************************************************************************)
CRITICAL == 0
ERROR == 1
WARNING == 2
NOTICE == 3
INFO == 4
DEBUG == 5

Levels == {CRITICAL, ERROR, WARNING, NOTICE, INFO, DEBUG}

Max(S) == CHOOSE x \in S : \A y \in S : y <= x

\* A Go slice literal with keyed elements: its length is the largest key
\* plus one and every index without a key holds the zero value.
SliceLit(elems) ==
    [i \in 0..Max({e[1] : e \in elems}) |->
        IF \E e \in elems : e[1] = i
        THEN (CHOOSE e \in elems : e[1] = i)[2]
        ELSE 0]

colorsMissingInfo ==
    SliceLit({<<CRITICAL, fgMagenta>>, <<ERROR, fgRed>>,
              <<WARNING, fgYellow>>, <<NOTICE, fgGreen>>, <<DEBUG, fgCyan>>})

colors ==
    SliceLit({<<INFO, fgWhite>>, <<CRITICAL, fgMagenta>>, <<ERROR, fgRed>>,
              <<WARNING, fgYellow>>, <<NOTICE, fgGreen>>, <<DEBUG, fgCyan>>})

boldcolorsPlainWarning ==
    SliceLit({<<INFO, Or(fgWhite, fgIntensity)>>,
              <<CRITICAL, Or(fgMagenta, fgIntensity)>>,
              <<ERROR, Or(fgRed, fgIntensity)>>,
              <<WARNING, fgYellow>>,
              <<NOTICE, Or(fgGreen, fgIntensity)>>,
              <<DEBUG, Or(fgCyan, fgIntensity)>>})

boldcolors ==
    SliceLit({<<INFO, Or(fgWhite, fgIntensity)>>,
              <<CRITICAL, Or(fgMagenta, fgIntensity)>>,
              <<ERROR, Or(fgRed, fgIntensity)>>,
              <<WARNING, Or(fgYellow, fgIntensity)>>,
              <<NOTICE, Or(fgGreen, fgIntensity)>>,
              <<DEBUG, Or(fgCyan, fgIntensity)>>})

(***************************************************************************)
(* Collaborators of Log.                                                   *)
(***************************************************************************)
\* rec.Formatted(calldepth): the rendered text of a record
Formatted(rec, calldepth) == <<"text", rec, calldepth>>

NoText == <<>>
nil == "nil"
EINVAL == "EINVAL"

\* what SetConsoleTextAttribute can return: r1 (non-zero on success) and
\* the error value of the call
ProcResults == {<<1, nil>>, <<0, "ERROR_INVALID_HANDLE">>, <<0, nil>>}

\* what the io.Writer behind the Logger can answer to a write
WriteErrs == {nil, "EPIPE", "ENOSPC"}

\* callers that make their Log calls one at a time and assign b.Color
\* between two of them: every level, calldepth and record, every answer of
\* the writer and of the system call
AllInputs ==
    [serial |-> TRUE, callers |-> Procs,
     levels |-> Levels, calldepths |-> CallDepths, records |-> Records,
     errs |-> WriteErrs, results |-> ProcResults]

\* two goroutines that call Log on the one backend with nothing between
\* them: two coloured levels and the white one, one text
RaceInputs ==
    [serial |-> FALSE, callers |-> {p \in Procs : p <= 2},
     levels |-> {ERROR, WARNING, INFO}, calldepths |-> {0}, records |-> {1},
     errs |-> {nil, "EPIPE"},
     results |-> {<<1, nil>>, <<0, "ERROR_INVALID_HANDLE">>}]

\* every goroutine calls Log on the one backend with nothing between them:
\* one coloured level, one text
CrowdInputs ==
    [serial |-> FALSE, callers |-> Procs,
     levels |-> {ERROR}, calldepths |-> {0}, records |-> {1},
     errs |-> {nil, "EPIPE"},
     results |-> {<<1, nil>>, <<0, "ERROR_INVALID_HANDLE">>}]

\* checkError: nil on a non-zero r1, else the error, else EINVAL
checkError(r1, err) ==
    IF r1 # 0 THEN nil
    ELSE IF err # nil THEN err
    ELSE EINVAL

\* the attribute word as the system call receives it: uintptr(attribute)
AttrCall(attribute, res) ==
    [op |-> "setAttribute", attr |-> attribute, depth |-> 0, text |-> NoText,
     err |-> checkError(res[1], res[2])]

\* Logger.Output(calldepth, s), the console attribute in effect recorded
WriteCall(calldepth, s, e, attribute) ==
    [op |-> "write", attr |-> attribute, depth |-> calldepth, text |-> s,
     err |-> e]

(***************************************************************************)
(* State.                                                                  *)
(***************************************************************************)
VARIABLES
    b,        \* the LogBackend: [Color, f]; f is TRUE when b.f is non-nil
    console,  \* the text attribute of the console screen buffer
    pc,       \* per goroutine: where it stands in Log
    args,     \* per goroutine: level, calldepth, rec and the b.Color it read
    calls,    \* per goroutine: the calls its current Log has made on the sink
    ret,      \* per goroutine: the error its Log returns
    prev,     \* the Log call that returned last (any is FALSE before the
              \* first): the b.Color it read, the number of its attribute
              \* calls and whether its last attribute call succeeded
    entry,    \* the console attribute when Log was entered last
    lastOp    \* the last call of SetConsoleTextAttribute made on the console:
              \* the step of Log that made it and whether it succeeded

vars == <<b, console, pc, args, calls, ret, prev, entry, lastOp>>

NoArgs == [level |-> INFO, calldepth |-> 0, rec |-> 1, Color |-> FALSE]
NoPrev == [any |-> FALSE, Color |-> FALSE, attrCalls |-> 0, resetOk |-> FALSE]
NoOp == [step |-> "none", ok |-> FALSE]

\* attributes a console may have before the program writes to it
ConsoleStart == {fgWhite, Or(fgGreen, fgIntensity)}

NewLogBackendColouring(outIsFile) == [Color |-> outIsFile, f |-> outIsFile]

\* NewLogBackend(out, prefix, flag): Color is left false, f is set when out
\* implements the file interface
NewLogBackend(outIsFile) == [Color |-> FALSE, f |-> outIsFile]

Init ==
    /\ \E outIsFile \in BOOLEAN : b = NewLogBackend(outIsFile)
    /\ console \in ConsoleStart
    /\ pc = [p \in Procs |-> "idle"]
    /\ args = [p \in Procs |-> NoArgs]
    /\ calls = [p \in Procs |-> <<>>]
    /\ ret = [p \in Procs |-> nil]
    /\ prev = NoPrev
    /\ entry = console
    /\ lastOp = NoOp

(***************************************************************************)
(* Operations.                                                             *)
(***************************************************************************)
\* no goroutine is inside Log
Idle == \A p \in Procs : pc[p] = "idle"

\* no other goroutine is inside Log
Alone(p) == \A q \in Procs \ {p} : pc[q] = "idle"

\* the user assigns the exported field b.Color
SetColor(v, in) ==
    /\ in.serial => Idle
    /\ b.Color # v
    /\ b' = [b EXCEPT !.Color = v]
    /\ UNCHANGED <<console, pc, args, calls, ret, prev, entry, lastOp>>

UseColorIgnoringFlag(color, f) == f

\* the condition of Log's if statement
UseColor(color, f) == color /\ f

\* Log is entered and its if statement evaluated
LogEnter(p, in) ==
    /\ pc[p] = "idle"
    /\ in.serial => Alone(p)
    /\ \E level \in in.levels, calldepth \in in.calldepths, rec \in in.records :
          args' = [args EXCEPT ![p] = [level |-> level, calldepth |-> calldepth,
                                      rec |-> rec, Color |-> b.Color]]
    /\ pc' = [pc EXCEPT ![p] = IF UseColor(b.Color, b.f) THEN "set" ELSE "plain"]
    /\ calls' = [calls EXCEPT ![p] = <<>>]
    /\ entry' = console
    /\ UNCHANGED <<b, console, ret, prev, lastOp>>

\* setConsoleTextAttribute(f, attribute) by goroutine p: the console takes
\* the attribute when the call succeeds; the error is returned to Log
setConsoleTextAttribute(p, attribute, res) ==
    /\ console' = IF res[1] # 0 THEN attribute ELSE console
    /\ calls' = [calls EXCEPT ![p] = Append(@, AttrCall(attribute, res))]
    /\ lastOp' = [step |-> pc[p], ok |-> res[1] # 0]

LevelAttrBold(level) == boldcolors[level]

\* the attribute Log passes for a level
LevelAttr(level) == colors[level]

LogSetAttrReturningOnError(p, results) ==
    /\ pc[p] = "set"
    /\ \E res \in results :
          /\ setConsoleTextAttribute(p, LevelAttr(args[p].level), res)
          /\ IF checkError(res[1], res[2]) = nil
             THEN /\ pc' = [pc EXCEPT ![p] = "output"]
                  /\ ret' = ret
             ELSE /\ pc' = [pc EXCEPT ![p] = "done"]
                  /\ ret' = [ret EXCEPT ![p] = checkError(res[1], res[2])]
    /\ UNCHANGED <<b, args, prev, entry>>

LogSetAttrUnlessLastFailed(p, results) ==
    /\ pc[p] = "set"
    /\ IF prev.any /\ prev.attrCalls > 0 /\ ~prev.resetOk
       THEN UNCHANGED <<console, calls, lastOp>>
       ELSE \E res \in results :
               setConsoleTextAttribute(p, LevelAttr(args[p].level), res)
    /\ pc' = [pc EXCEPT ![p] = "output"]
    /\ UNCHANGED <<b, args, ret, prev, entry>>

LogSetAttrLocked(p, results) ==
    /\ pc[p] = "set"
    /\ \A q \in Procs \ {p} : pc[q] \notin {"output", "reset"}
    /\ \E res \in results :
          setConsoleTextAttribute(p, LevelAttr(args[p].level), res)
    /\ pc' = [pc EXCEPT ![p] = "output"]
    /\ UNCHANGED <<b, args, ret, prev, entry>>

\* setConsoleTextAttribute(b.f, colors[level]); its error is dropped
LogSetAttr(p, results) ==
    /\ pc[p] = "set"
    /\ \E res \in results :
          setConsoleTextAttribute(p, LevelAttr(args[p].level), res)
    /\ pc' = [pc EXCEPT ![p] = "output"]
    /\ UNCHANGED <<b, args, ret, prev, entry>>

\* buf.Write([]byte(rec.Formatted(calldepth + 1))); buf.String()
OutputText(rec, calldepth) == Formatted(rec, calldepth + 1)

\* err := b.Logger.Output(calldepth+2, buf.String())
LogOutput(p, errs) ==
    /\ pc[p] = "output"
    /\ \E e \in errs :
          /\ calls' = [calls EXCEPT ![p] =
                Append(@, WriteCall(args[p].calldepth + 2,
                                    OutputText(args[p].rec, args[p].calldepth),
                                    e, console))]
          /\ ret' = [ret EXCEPT ![p] = e]
    /\ pc' = [pc EXCEPT ![p] = "reset"]
    /\ UNCHANGED <<b, console, args, prev, entry, lastOp>>

LogResetAttrSkippedOnError(p, results) ==
    /\ pc[p] = "reset"
    /\ IF ret[p] # nil
       THEN UNCHANGED <<console, calls, lastOp>>
       ELSE \E res \in results : setConsoleTextAttribute(p, fgWhite, res)
    /\ pc' = [pc EXCEPT ![p] = "done"]
    /\ UNCHANGED <<b, args, ret, prev, entry>>

LogResetAttrToLevelAttr(p, results) ==
    /\ pc[p] = "reset"
    /\ \E res \in results :
          setConsoleTextAttribute(p, LevelAttr(args[p].level), res)
    /\ pc' = [pc EXCEPT ![p] = "done"]
    /\ UNCHANGED <<b, args, ret, prev, entry>>

LogResetAttrGivingUpColor(p, results) ==
    /\ pc[p] = "reset"
    /\ \E res \in results :
          /\ setConsoleTextAttribute(p, fgWhite, res)
          /\ b' = IF checkError(res[1], res[2]) = nil
                  THEN b
                  ELSE [b EXCEPT !.Color = FALSE]
    /\ pc' = [pc EXCEPT ![p] = "done"]
    /\ UNCHANGED <<args, ret, prev, entry>>

LogResetAttrReturningItsError(p, results) ==
    /\ pc[p] = "reset"
    /\ \E res \in results :
          /\ setConsoleTextAttribute(p, fgWhite, res)
          /\ ret' = [ret EXCEPT ![p] =
                IF @ = nil THEN checkError(res[1], res[2]) ELSE @]
    /\ pc' = [pc EXCEPT ![p] = "done"]
    /\ UNCHANGED <<b, args, prev, entry>>

\* setConsoleTextAttribute(b.f, fgWhite); return err
LogResetAttr(p, results) ==
    /\ pc[p] = "reset"
    /\ \E res \in results : setConsoleTextAttribute(p, fgWhite, res)
    /\ pc' = [pc EXCEPT ![p] = "done"]
    /\ UNCHANGED <<b, args, ret, prev, entry>>

PlainTextAtOutputDepth(rec, calldepth) == Formatted(rec, calldepth + 2)

\* rec.Formatted(calldepth+1) of the plain path
PlainText(rec, calldepth) == Formatted(rec, calldepth + 1)

\* return b.Logger.Output(calldepth+2, rec.Formatted(calldepth+1))
LogPlain(p, errs) ==
    /\ pc[p] = "plain"
    /\ \E e \in errs :
          /\ calls' = [calls EXCEPT ![p] =
                Append(@, WriteCall(args[p].calldepth + 2,
                                    PlainText(args[p].rec, args[p].calldepth),
                                    e, console))]
          /\ ret' = [ret EXCEPT ![p] = e]
    /\ pc' = [pc EXCEPT ![p] = "done"]
    /\ UNCHANGED <<b, console, args, prev, entry, lastOp>>

\* the calls of a Log that were calls of setConsoleTextAttribute
AttrCalls(cs) == Cardinality({i \in 1..Len(cs) : cs[i].op = "setAttribute"})

\* the last call of a Log was a call of setConsoleTextAttribute that succeeded
LastAttrCallOk(cs) ==
    /\ Len(cs) > 0
    /\ cs[Len(cs)].op = "setAttribute"
    /\ cs[Len(cs)].err = nil

\* the caller has the result; the goroutine is free for its next Log
LogReturn(p) ==
    /\ pc[p] = "done"
    /\ pc' = [pc EXCEPT ![p] = "idle"]
    /\ prev' = [any |-> TRUE, Color |-> args[p].Color,
                 attrCalls |-> AttrCalls(calls[p]),
                 resetOk |-> LastAttrCallOk(calls[p])]
    /\ args' = [args EXCEPT ![p] = NoArgs]
    /\ calls' = [calls EXCEPT ![p] = <<>>]
    /\ ret' = [ret EXCEPT ![p] = nil]
    /\ UNCHANGED <<b, console, entry, lastOp>>

Step(p, in) ==
    \/ LogEnter(p, in)
    \/ LogSetAttr(p, in.results)
    \/ LogOutput(p, in.errs)
    \/ LogResetAttr(p, in.results)
    \/ LogPlain(p, in.errs)
    \/ LogReturn(p)

Run(in) ==
    \/ \E v \in BOOLEAN : SetColor(v, in)
    \/ \E p \in in.callers : Step(p, in)

\* Log calls made one at a time
Next == Run(AllInputs)

Spec == Init /\ [][Next]_vars

\* Log calls made by two goroutines at once
NextRace == Run(RaceInputs)

SpecRace == Init /\ [][NextRace]_vars

\* Log calls made by every goroutine at once
NextCrowd == Run(CrowdInputs)

SpecCrowd == Init /\ [][NextCrowd]_vars

(***************************************************************************)
(* Properties.                                                             *)
(***************************************************************************)
\* goroutine p is inside a Log that read b.Color true on a backend with f set
ColorEmit(p) == pc[p] # "idle" /\ args[p].Color /\ b.f

\* goroutine p is inside a Log that read b.Color false, or on a backend
\* without f
PlainEmit(p) == pc[p] # "idle" /\ (~args[p].Color \/ ~b.f)

IsAttrCall(c, attribute) == c.op = "setAttribute" /\ c.attr = attribute

IsWrite(c) == c.op = "write"

\* the calls of a returned colour-path Log: set, write, reset
Bracketed(p) ==
    /\ Len(calls[p]) = 3
    /\ IsAttrCall(calls[p][1], colors[args[p].level])
    /\ IsWrite(calls[p][2])
    /\ IsAttrCall(calls[p][3], fgWhite)

\* C1: with f set and b.Color true, every Log, for every level and whether
\* the write succeeds or fails, makes exactly one attribute call carrying
\* colors[level], then exactly one write, then exactly one attribute call
\* carrying fgWhite, in that order.
C1_SetWriteReset ==
    \A p \in Procs : ColorEmit(p) =>
        /\ pc[p] \in {"set", "output", "reset", "done"}
        /\ pc[p] = "set" => calls[p] = <<>>
        /\ pc[p] = "output" =>
              /\ Len(calls[p]) = 1
              /\ IsAttrCall(calls[p][1], colors[args[p].level])
        /\ pc[p] = "reset" =>
              /\ Len(calls[p]) = 2
              /\ IsAttrCall(calls[p][1], colors[args[p].level])
              /\ IsWrite(calls[p][2])
        /\ pc[p] = "done" => Bracketed(p)

\* a colour-path Log has returned after a failed write, reset made
C1_Witness ==
    \E p \in Procs :
        /\ ColorEmit(p) /\ pc[p] = "done"
        /\ args[p].level = CRITICAL
        /\ Len(calls[p]) = 3
        /\ calls[p][2].err = "ENOSPC"
        /\ calls[p][3].op = "setAttribute"

\* C2: the error Log returns is the error of its one write, on both paths;
\* a failure of either attribute call neither makes a successful write a
\* reported failure nor replaces a write failure.
C2_ReturnsWriteOutcome ==
    \A p \in Procs : pc[p] = "done" =>
        /\ Cardinality({i \in 1..Len(calls[p]) : IsWrite(calls[p][i])}) = 1
        /\ \A i \in 1..Len(calls[p]) :
              IsWrite(calls[p][i]) => ret[p] = calls[p][i].err

\* both attribute calls failed, the write succeeded and Log returned nil
C2_Witness ==
    \E p \in Procs :
        /\ ColorEmit(p) /\ pc[p] = "done"
        /\ Len(calls[p]) = 3
        /\ calls[p][1].err # nil
        /\ calls[p][2].err = nil
        /\ calls[p][3].err # nil
        /\ ret[p] = nil

\* C3: when b.Color is false or f is not set, Log makes no attribute call
\* and exactly one write, of rec.Formatted(calldepth+1), and returns that
\* write's error, for every level.
C3_PlainPath ==
    \A p \in Procs : PlainEmit(p) =>
        /\ pc[p] \in {"plain", "done"}
        /\ pc[p] = "plain" => calls[p] = <<>>
        /\ pc[p] = "done" =>
              /\ Len(calls[p]) = 1
              /\ IsWrite(calls[p][1])
              /\ calls[p][1].text = Formatted(args[p].rec, args[p].calldepth + 1)
              /\ calls[p][1].depth = args[p].calldepth + 2
              /\ ret[p] = calls[p][1].err

\* a Warning record has gone out on a backend without f, b.Color being true
C3_Witness ==
    \E p \in Procs :
        /\ pc[p] = "done"
        /\ args[p].level = WARNING
        /\ args[p].Color /\ ~b.f
        /\ calls[p] = <<WriteCall(args[p].calldepth + 2,
                                  Formatted(args[p].rec, args[p].calldepth + 1),
                                  ret[p], console)>>

\* C4 as stated: once a colour-path Log has completed, whatever happened in
\* it, the console attribute is fgWhite.
C4_AlwaysDefaultAfterLog ==
    \A p \in Procs : ColorEmit(p) /\ pc[p] = "done" => console = fgWhite

\* C4 as amended: once a colour-path Log whose reset call succeeded has
\* completed (any level, any write outcome), the console attribute is
\* fgWhite, and it stays so while idle and into the next call; a reset that
\* failed leaves the attribute the console had at the write.
C4_DefaultAfterReset ==
    /\ \A p \in Procs : ColorEmit(p) /\ pc[p] = "done" /\ Len(calls[p]) = 3 =>
          IF calls[p][3].err = nil
          THEN console = fgWhite
          ELSE console = calls[p][2].attr
    /\ Idle /\ prev.resetOk => console = fgWhite
    /\ \A p \in Procs : pc[p] \in {"set", "plain"} /\ prev.resetOk =>
          console = fgWhite

\* a second call in a row has completed after a failed write, console reset
C4_Witness ==
    \E p \in Procs :
        /\ ColorEmit(p) /\ pc[p] = "done"
        /\ prev.any /\ prev.attrCalls = 2
        /\ Len(calls[p]) = 3
        /\ args[p].level = ERROR
        /\ calls[p][2].err # nil
        /\ calls[p][3].err = nil
        /\ console = fgWhite

\* C5 as stated: with one caller at a time, the write of every colour-path
\* Log is made under colors[level], and between calls the attribute is
\* fgWhite.
C5_AlwaysBracketed ==
    /\ \A p \in Procs : ColorEmit(p) /\ pc[p] \in {"reset", "done"} =>
          calls[p][2].attr = colors[args[p].level]
    /\ Idle /\ prev.any /\ prev.attrCalls = 2 => console = fgWhite

\* C5 as amended: with one caller at a time, the write of every colour-path
\* Log whose set call succeeded is made under colors[level] (after a failed
\* set it is made under the attribute the console had), and between calls
\* the attribute is fgWhite when the reset of the call before succeeded.
C5_BracketedWhenSet ==
    /\ \A p \in Procs : ColorEmit(p) /\ pc[p] = "output" =>
          console = (IF calls[p][1].err = nil
                     THEN colors[args[p].level]
                     ELSE IF prev.resetOk THEN fgWhite ELSE console)
    /\ \A p \in Procs : ColorEmit(p) /\ pc[p] \in {"reset", "done"} =>
          (calls[p][1].err = nil => calls[p][2].attr = colors[args[p].level])
    /\ Idle /\ prev.resetOk => console = fgWhite

\* a Warning record was written under fgYellow after a call that was reset
C5_Witness ==
    \E p \in Procs :
        /\ ColorEmit(p) /\ pc[p] = "reset"
        /\ prev.resetOk
        /\ args[p].level = WARNING
        /\ calls[p][1].err = nil
        /\ calls[p][2].attr = fgYellow

\* C6: Log holds no lock: while one goroutine is between its set call and
\* its reset call, the set call and the reset call of another goroutine can
\* be made, so a text can be written under an attribute that is not its
\* level's (C6_Witness is such an interleaving).
C6_NotSerialized ==
    \A p \in Procs : \A q \in Procs \ {p} :
        pc[p] \in {"output", "reset"} =>
            /\ pc[q] = "set" => ENABLED LogSetAttr(q, RaceInputs.results)
            /\ pc[q] = "reset" => ENABLED LogResetAttr(q, RaceInputs.results)

\* every attribute call succeeded, and still p's text was written under the
\* colour of q's level and q's text under fgWhite, p having reset before
C6_Witness ==
    \E p \in Procs : \E q \in Procs \ {p} :
        /\ ColorEmit(p) /\ pc[p] = "done"
        /\ ColorEmit(q) /\ pc[q] \in {"reset", "done"}
        /\ \A i \in 1..Len(calls[p]) : calls[p][i].err = nil
        /\ \A i \in 1..Len(calls[q]) : calls[q][i].err = nil
        /\ calls[p][2].attr = colors[args[q].level]
        /\ calls[p][2].attr # colors[args[p].level]
        /\ calls[q][2].attr = fgWhite
        /\ calls[q][2].attr # colors[args[q].level]

\* an Error record has gone out on the colour path, write successful
ErrorEmitted(p) ==
    /\ ColorEmit(p) /\ pc[p] = "done"
    /\ args[p].level = ERROR
    /\ Len(calls[p]) = 3
    /\ calls[p][2].err = nil

ToggledOff(p) ==
    /\ pc[p] = "done"
    /\ b.f
    /\ prev.any /\ prev.Color
    /\ ~args[p].Color

\* C8: when b.Color goes from true to false between two Log calls on a
\* backend with f set, the first makes the set and the reset call, the
\* second makes no attribute call and writes the text the colour path
\* writes for the same record and calldepth.
C8_ToggleOff ==
    \A p \in Procs : ToggledOff(p) =>
        /\ prev.attrCalls = 2
        /\ AttrCalls(calls[p]) = 0
        /\ Len(calls[p]) = 1
        /\ IsWrite(calls[p][1])
        /\ calls[p][1].text = OutputText(args[p].rec, args[p].calldepth)

\* the second of two such calls has completed, its record written
C8_Witness ==
    \E p \in Procs :
        /\ ToggledOff(p)
        /\ ~b.Color
        /\ args[p].rec = MaxRec /\ args[p].calldepth = MaxCallDepth
        /\ Len(calls[p]) = 1

\* C9: when the set call fails, Log goes on: it makes the write once, then
\* the reset call, does not repeat the set call, and returns nil when the
\* write succeeded.
C9_SetFailureNotFatal ==
    \A p \in Procs :
        ColorEmit(p) /\ Len(calls[p]) >= 1 /\ calls[p][1].err # nil =>
            /\ pc[p] \in {"output", "reset", "done"}
            /\ pc[p] = "output" => Len(calls[p]) = 1
            /\ pc[p] = "reset" => Len(calls[p]) = 2 /\ IsWrite(calls[p][2])
            /\ pc[p] = "done" =>
                  /\ Bracketed(p)
                  /\ AttrCalls(calls[p]) = 2
                  /\ calls[p][2].err = nil => ret[p] = nil

\* the set call failed with EINVAL, the write and the reset were made and
\* Log returned nil
C9_Witness ==
    \E p \in Procs :
        /\ ColorEmit(p) /\ pc[p] = "done"
        /\ Len(calls[p]) = 3
        /\ calls[p][1].err = EINVAL
        /\ calls[p][2].err = nil
        /\ calls[p][3].err = nil
        /\ ret[p] = nil

\* both tables hold an attribute other than zero for the level
Mapped(level) ==
    /\ level \in DOMAIN colors
    /\ colors[level] # 0
    /\ level \in DOMAIN boldcolors
    /\ boldcolors[level] # 0

\* C10: for each of the six levels, colors and boldcolors each hold an
\* entry that is not zero: whatever level a Log is called with, the lookup
\* is defined, and the attribute a colour-path Log passes is not zero.
C10_EveryLevelMapped ==
    /\ Cardinality(Levels) = 6
    /\ \A p \in Procs :
          /\ Mapped(args[p].level)
          /\ ColorEmit(p) /\ Len(calls[p]) >= 1 => calls[p][1].attr # 0

\* an Info record is on the colour path, its attribute passed
C10_Witness ==
    \E p \in Procs :
        /\ ColorEmit(p) /\ pc[p] = "output"
        /\ args[p].level = INFO
        /\ calls[p][1].attr = fgWhite

\* C11 as stated, for the calls whose attribute calls both succeeded:
\* whatever attribute the console had when a colour-path Log was entered,
\* it has that attribute again once the Log has completed, the write
\* successful or not.
C11_RestoresEntryAttribute ==
    \A p \in Procs :
        /\ ColorEmit(p) /\ pc[p] = "done" /\ Len(calls[p]) = 3
        /\ calls[p][1].err = nil /\ calls[p][3].err = nil
        => console = entry

\* C11 as amended: a colour-path Log does not give back the attribute it
\* found: once it has completed with its reset call successful the console
\* attribute is fgWhite whatever it was at entry (so it is the entry value
\* only when that was fgWhite), on the success and the write-failure path
\* alike; when both attribute calls failed the console kept the entry
\* value.
C11_LeavesWhiteNotEntry ==
    \A p \in Procs : ColorEmit(p) /\ pc[p] = "done" /\ Len(calls[p]) = 3 =>
        /\ calls[p][3].err = nil =>
              /\ console = fgWhite
              /\ (console = entry) = (entry = fgWhite)
        /\ calls[p][1].err # nil /\ calls[p][3].err # nil => console = entry

\* a colour-path Log entered under green|intensity has completed after a
\* failed write, every attribute call successful, and left fgWhite
C11_Witness ==
    \E p \in Procs :
        /\ ColorEmit(p) /\ pc[p] = "done"
        /\ Len(calls[p]) = 3
        /\ entry = Or(fgGreen, fgIntensity)
        /\ calls[p][1].err = nil
        /\ calls[p][2].err # nil
        /\ calls[p][3].err = nil
        /\ console = fgWhite

\* some goroutine moves on in Log: enters it, makes a call, returns
LogStep == \E p \in Procs : pc'[p] # pc[p]

Seen(c) ==
    IF c.op = "write"
    THEN <<c.op, c.depth, c.text, c.err>>
    ELSE <<c.op, c.attr, c.err>>

\* the calls a Log makes, as a function of the flag it read, the
\* capability, its arguments and the answers it got, and of nothing else
CallsOf(color, f, level, calldepth, rec, errs) ==
    IF color /\ f
    THEN << <<"setAttribute", colors[level], errs[1]>>,
            <<"write", calldepth + 2, Formatted(rec, calldepth + 1), errs[2]>>,
            <<"setAttribute", fgWhite, errs[3]>> >>
    ELSE << <<"write", calldepth + 2, Formatted(rec, calldepth + 1), errs[1]>> >>

\* C13: a Log does not depend on the calls made before it: the calls it
\* makes on the sink and the error it returns are a function of b.Color,
\* b.f, level, calldepth, rec and the answers of the sink alone, whatever
\* calls came before, whether they failed, and whatever attribute they left
\* on the console.
C13_HistoryIndependent ==
    \A p \in Procs : pc[p] = "done" =>
        LET errs == [i \in 1..Len(calls[p]) |-> calls[p][i].err]
            expected == CallsOf(args[p].Color, b.f, args[p].level,
                                args[p].calldepth, args[p].rec, errs)
        IN  /\ Len(calls[p]) = (IF args[p].Color /\ b.f THEN 3 ELSE 1)
            /\ [i \in 1..Len(calls[p]) |-> Seen(calls[p][i])] = expected
            /\ ret[p] = (IF args[p].Color /\ b.f THEN errs[2] ELSE errs[1])

\* a colour-path Log has completed as a first call would, after a call
\* whose reset failed and left the console coloured
C13_Witness ==
    \E p \in Procs :
        /\ ColorEmit(p) /\ pc[p] = "done"
        /\ prev.any /\ prev.attrCalls = 2 /\ ~prev.resetOk
        /\ entry \notin {fgWhite} \cup ConsoleStart
        /\ Len(calls[p]) = 3
        /\ \A i \in 1..3 : calls[p][i].err = nil
        /\ ret[p] = nil

\* every Log call made so far has returned
AllReturned == \A p \in Procs : pc[p] \in {"idle", "done"}

\* C14: whatever the interleaving of the Log calls of any number of
\* goroutines on a backend, once all of them have returned the last
\* attribute call made on the console is the reset call of one of them,
\* and when that call succeeded the console attribute is fgWhite, however
\* the texts were coloured.
C14_LastCallIsReset ==
    AllReturned /\ lastOp.step # "none" =>
        /\ lastOp.step = "reset"
        /\ lastOp.ok => console = fgWhite

\* two overlapping colour-path calls have returned, the text of one
\* written under another attribute than its level's, and the console is
\* fgWhite
C14_Witness ==
    \E p \in Procs : \E q \in Procs \ {p} :
        /\ ColorEmit(p) /\ pc[p] = "done"
        /\ ColorEmit(q) /\ pc[q] = "done"
        /\ AllReturned
        /\ calls[p][1].err = nil
        /\ calls[p][2].attr # colors[args[p].level]
        /\ calls[q][2].err # nil
        /\ lastOp = [step |-> "reset", ok |-> TRUE]
        /\ console = fgWhite

\* the backend as NewLogBackend returns it: colouring off, no call made on
\* the sink or the console
Fresh ==
    /\ ~b.Color
    /\ lastOp = NoOp
    /\ entry = console
    /\ \A p \in Procs : pc[p] = "idle" /\ calls[p] = <<>>

\* C15: NewLogBackend returns a backend for a sink with and without the
\* capability, makes no attribute call and leaves Color false; as long as
\* Color is false no Log enters the colour path, even with b.f set, and
\* only a Log that read Color true is on it.
C15_FreshBackendIsPlain ==
    /\ Fresh
    /\ [](\A p \in Procs : pc[p] \in {"set", "output", "reset"} => args[p].Color)
    /\ [][~b.Color /\ ~b'.Color =>
            \A p \in Procs : pc'[p] = "set" => pc[p] = "set"]_vars

\* the first Log on a backend with f set has completed on the plain path,
\* no attribute call ever made
C15_Witness ==
    \E p \in Procs :
        /\ pc[p] = "done"
        /\ b = NewLogBackend(TRUE)
        /\ ~args[p].Color
        /\ ~prev.any
        /\ lastOp = NoOp
        /\ Len(calls[p]) = 1 /\ IsWrite(calls[p][1])
        /\ console \in ConsoleStart

\* the attribute has no bit outside fgMask
InMask(attribute) == Or(attribute, fgMask) = fgMask

\* C16: for the level of every Log, the boldcolors entry is the colors
\* entry with fgIntensity or-ed in, the colors entry differs from that of
\* every other level, both entries lie within fgMask, and colors[INFO] is
\* the attribute the reset call passes.
C16_TablesAgree ==
    \A p \in Procs :
        LET level == args[p].level
            plain == colors
            bold == boldcolors
        IN  /\ bold[level] = Or(plain[level], fgIntensity)
            /\ \A other \in Levels \ {level} : plain[other] # plain[level]
            /\ InMask(plain[level]) /\ InMask(bold[level])
            /\ plain[INFO] = fgWhite
            /\ ColorEmit(p) /\ pc[p] = "done" => calls[p][3].attr = plain[INFO]

\* a Warning record has gone out under fgYellow, its bold entry being
\* yellow|intensity, and the reset passed the Info entry
C16_Witness ==
    \E p \in Procs :
        /\ ColorEmit(p) /\ pc[p] = "done"
        /\ args[p].level = WARNING
        /\ calls[p][1].attr = fgYellow
        /\ boldcolors[WARNING] = 14
        /\ calls[p][3].attr = colors[INFO]

====
